---- MODULE Spec2Model ----
(***************************************************************************)
(* Batch download of journal articles (src/batch_download_journals.py).   *)
(*                                                                         *)
(* The module models process_single_journal (resume check, search, count, *)
(* page download, save) step by step, the retry decorator it relies on,   *)
(* and main's loop with its progress log.  Two specifications share the   *)
(* job steps:                                                             *)
(*   Spec       process_single_journal called (and called again) on one   *)
(*              line, against an environment free to fail any request;    *)
(*   SpecBatch  main over a range of a long journal list, against an      *)
(*              environment fixed per line when the run starts.           *)
(***************************************************************************)
EXTENDS Integers, Sequences, FiniteSets, TLC

(***************************************************************************)
(* Program constants.                                                      *)
(***************************************************************************)
MAX_WORKERS == 2
PER_PAGE == 200
MAX_RETRIES == 3
RETRY_DELAY == 5
\* download_journal_articles.py: MAX_WORKERS = 5.
SINGLE_MAX_WORKERS == 5
\* REQUEST_DELAY = 0.5 s, in milliseconds.
REQUEST_DELAY_MS == 500
\* main saves the progress log when len(results) % 10 == 0.
CHECKPOINT_EVERY == 10

(***************************************************************************)
(* Bounds of the model.                                                    *)
(***************************************************************************)
\* Largest number of pages a journal of the model has.
MaxPages == 3
\* Largest line number process_single_journal is called with under Spec.
MaxLine == 2
\* Number of journals in the input file under SpecBatch.
MaxBatch == 25
\* Largest number of pages of a single-journal download under SpecPool.
MaxPoolPages == 6
\* Raw works have at most this many authorships.
MaxAuthors == 1
\* Inverted indexes list at most this many positions, each below it.
MaxSlots == 3

(***************************************************************************)
(* Values.                                                                 *)
(***************************************************************************)
\* Total counts the count request may report: none, one work, a full page,
\* a full page and one work, and MaxPages - 1 full pages and 50 works
\* (450 for three pages).
Counts == {0, 1, PER_PAGE, PER_PAGE + 1, (MaxPages - 1) * PER_PAGE + 50}

\* Pool sizes a call site may configure: one worker, the batch script's
\* MAX_WORKERS and the single-journal script's MAX_WORKERS = 5.
PoolSizes == {1, MAX_WORKERS, 5}

\* Candidate sources the search endpoint may rank.
SourceA == [id |-> "S1", display_name |-> "Journal One"]
SourceB == [id |-> "S2", display_name |-> "Journal Two"]
NoJournal == [id |-> "", display_name |-> ""]
\* What the search endpoint may return: no candidate, or two ranked ones.
SearchResponses == {<<>>, <<SourceB, SourceA>>}

\* An output file or the progress log on disk: absent; a JSON array
\* ("array", with its elements); valid JSON that is not an array
\* ("object"); text that is not valid JSON, such as what an interrupted
\* write leaves ("truncated"); bytes that are not valid UTF-8, such as
\* a write interrupted inside a multi-byte character ("badutf8").
NoFile == [kind |-> "absent", data |-> <<>>]
ArrayFile(d) == [kind |-> "array", data |-> d]
ObjectFile == [kind |-> "object", data |-> <<>>]
TruncatedFile == [kind |-> "truncated", data |-> <<>>]
BadUtf8File == [kind |-> "badutf8", data |-> <<>>]
\* A file that exists and cannot be opened for reading ("unreadable").
UnreadableFile == [kind |-> "unreadable", data |-> <<>>]

\* The works of one page: works are identified by page and position, so
\* the list a page returns is given by its page number and its length.
\* A list of works is a sequence of such runs; processed marks the runs
\* process_work has normalised.
WorkRun(p, n) == [page |-> p, n |-> n, processed |-> FALSE]

RECURSIVE NumWorks(_)
\* len() of a list of works.
NumWorks(works) ==
    IF works = <<>> THEN 0 ELSE Head(works).n + NumWorks(Tail(works))

\* list.extend: an empty list adds nothing.
Extend(all_works, works) ==
    IF works.n = 0 THEN all_works ELSE Append(all_works, works)

\* What the listing endpoint returns for page p of a journal with `total`
\* works: PER_PAGE works per page, the rest on the last one.
PageResult(total, p) ==
    LET left == total - (p - 1) * PER_PAGE
    IN  WorkRun(p, IF left >= PER_PAGE THEN PER_PAGE
                   ELSE IF left > 0 THEN left ELSE 0)

(***************************************************************************)
(* Events: what a step did that the remote service or the clock can see.   *)
(***************************************************************************)
\* A request: its endpoint, the name or identifier it asks for, its page,
\* and whether the remote service answered it.
Get(op, key, page) == [op |-> op, key |-> key, n |-> page, ok |-> TRUE]
Pause == [op |-> "pause", key |-> "", n |-> REQUEST_DELAY_MS, ok |-> TRUE]
Backoff(seconds) == [op |-> "backoff", key |-> "", n |-> seconds, ok |-> TRUE]
Submit(page) == [op |-> "submit", key |-> "", n |-> page, ok |-> TRUE]
Stagger ==
    [op |-> "stagger", key |-> "", n |-> REQUEST_DELAY_MS \div 2, ok |-> TRUE]

RequestOps == {"search", "count", "page"}
Requests(events) == SelectSeq(events, LAMBDA e : e.op \in RequestOps)
OpsOf(events, op) == SelectSeq(events, LAMBDA e : e.op = op)

(***************************************************************************)
(* retry_on_error.                                                         *)
(*                                                                         *)
(* The remote service's behaviour towards one decorated call is a script: *)
(* the first nfail attempts raise, every later one returns resp.          *)
(***************************************************************************)
Script(nfail, resp) == [nfail |-> nfail, resp |-> resp]

\* One call of the wrapped function: the rate-limit pause, the request, and
\* either its value or an exception.
CallFunc(script, req, attempt) ==
    [ok |-> attempt >= script.nfail, value |-> script.resp,
     events |-> <<Pause, [req EXCEPT !.ok = attempt >= script.nfail]>>]

\* Mutant of BackoffDelay: the wait does not grow.
BackoffDelayFixed(attempt) == RETRY_DELAY

\* wait_time = RETRY_DELAY * (2 ** attempt)
BackoffDelay(attempt) == RETRY_DELAY * (2 ^ attempt)

\* The wait after a failed attempt: none after the last one.
AfterFailure(attempt) ==
    IF attempt < MAX_RETRIES - 1 THEN <<Backoff(BackoffDelay(attempt))>>
    ELSE <<>>

\* for attempt in range(MAX_RETRIES)
AttemptsRange == 0 .. (MAX_RETRIES - 1)

RECURSIVE RetryLoop(_, _, _, _)
RetryLoop(script, req, attempt, events) ==
    IF attempt \notin AttemptsRange
    THEN [raised |-> TRUE, value |-> script.resp, events |-> events]
    ELSE LET r == CallFunc(script, req, attempt)
         IN  IF r.ok
             THEN [raised |-> FALSE, value |-> r.value,
                   events |-> events \o r.events]
             ELSE RetryLoop(script, req, attempt + 1,
                            events \o r.events \o AfterFailure(attempt))

retry_on_error(script, req) == RetryLoop(script, req, 0, <<>>)

\* Scripts of the environment: up to MAX_RETRIES failures, so that a call
\* can exhaust its attempts.
NFails == 0 .. MAX_RETRIES

\* Scripts of a page request: answered at once, answered after one retry,
\* or never answered.
PageNFails == {0, 1, MAX_RETRIES}


(***************************************************************************)
(* The decorated HTTP calls.                                               *)
(***************************************************************************)
\* Mutant of BestMatch: the lowest-ranked candidate is taken.
BestMatchLast(results) ==
    IF Len(results) > 0 THEN [found |-> TRUE, journal |-> results[Len(results)]]
    ELSE [found |-> FALSE, journal |-> NoJournal]

\* Mutant of BestMatch: an empty result list is taken for a match.
BestMatchAlways(results) ==
    [found |-> TRUE,
     journal |-> IF Len(results) > 0 THEN results[1] ELSE NoJournal]

\* data["results"][0] when the result list is not empty, else None.
BestMatch(results) ==
    IF Len(results) > 0 THEN [found |-> TRUE, journal |-> results[1]]
    ELSE [found |-> FALSE, journal |-> NoJournal]

\* script.resp: the ranked result list of the search endpoint.
search_journal_by_name(journal_name, script) ==
    LET r == retry_on_error(script, Get("search", journal_name, 0))
    IN  [raised |-> r.raised, found |-> BestMatch(r.value).found,
         journal |-> BestMatch(r.value).journal, events |-> r.events]

\* script.resp: meta.count of the listing endpoint.
get_total_works_count(journal_id, script) ==
    retry_on_error(script, Get("count", journal_id, 0))

\* script.resp: the works of the page.
fetch_works_page(journal_id, page, script) ==
    retry_on_error(script, Get("page", journal_id, page))

(***************************************************************************)
(* download_all_works.                                                     *)
(***************************************************************************)
\* Mutant of NumPages: the division rounds down.
NumPagesFloor(total_count) == total_count \div PER_PAGE

\* num_pages = (total_count + PER_PAGE - 1) // PER_PAGE
NumPages(total_count) == (total_count + PER_PAGE - 1) \div PER_PAGE

\* range(1, num_pages + 1)
PageRange(num_pages) == [i \in 1 .. num_pages |-> i]

\* The pause after a submission: if page % MAX_WORKERS == 0.
StaggerAfter(page, max_workers) ==
    IF page % max_workers = 0 THEN <<Stagger>> ELSE <<>>

RECURSIVE SubmitLoop(_, _)
\* The submissions, in order, with the pauses between them.
SubmitLoop(pages, max_workers) ==
    IF pages = <<>> THEN <<>>
    ELSE <<Submit(Head(pages))>> \o StaggerAfter(Head(pages), max_workers)
         \o SubmitLoop(Tail(pages), max_workers)

\* process_work, on a run of works.
process_work(work) == [work EXCEPT !.processed = TRUE]

\* Mutant of Collect: a failed page discards what was collected.
CollectOrAbandon(all_works, future) ==
    IF future.raised THEN <<>> ELSE Extend(all_works, future.value)

\* future.result() of one submitted page, collected by the coordinating
\* thread: the works are appended, an exception drops the page.
Collect(all_works, future) ==
    IF future.raised THEN all_works ELSE Extend(all_works, future.value)

RECURSIVE CollectLoop(_, _)
\* for future, page in futures: in the order of submission.
CollectLoop(futures, all_works) ==
    IF futures = <<>> THEN all_works
    ELSE CollectLoop(Tail(futures), Collect(all_works, Head(futures)))

RECURSIVE Flatten(_)
Flatten(seqs) ==
    IF seqs = <<>> THEN <<>> ELSE Head(seqs) \o Flatten(Tail(seqs))

\* nfail[p]: how many attempts of page p the remote service fails.  The
\* events list the submissions first and then every page's attempts, page
\* by page: the order in which the workers interleave them is not part of
\* the result.
download_all_works(journal_id, total_count, max_workers, nfail) ==
    LET num_pages == NumPages(total_count)
        pages == PageRange(num_pages)
        futures == [i \in DOMAIN pages |->
                       fetch_works_page(journal_id, pages[i],
                           Script(nfail[pages[i]],
                                  PageResult(total_count, pages[i])))]
        all_works == CollectLoop(futures, <<>>)
    IN  [works |-> [i \in DOMAIN all_works |-> process_work(all_works[i])],
         events |-> SubmitLoop(pages, max_workers)
                    \o Flatten([i \in DOMAIN futures |-> futures[i].events])]

(***************************************************************************)
(* Output files.                                                           *)
(***************************************************************************)
\* How a write of `works` may end: completed; open() raises and the file
\* is left as it was; the write raises after open() has emptied the file,
\* leaving text cut short or, when there is text to cut, a character cut in
\* two.
WriteOutcomes == {"ok", "open_error", "cut_text", "cut_char"}

\* What an interrupted write of `works` leaves.
TornFile(works, how) ==
    IF how = "cut_char" /\ works # <<>> THEN BadUtf8File ELSE TruncatedFile

\* with open(filename, 'w') as f: json.dump(works, f)
save_to_json(works, file, outcome) ==
    CASE outcome = "ok" -> [raised |-> FALSE, file |-> ArrayFile(works)]
      [] outcome = "open_error" -> [raised |-> TRUE, file |-> file]
      [] OTHER -> [raised |-> TRUE, file |-> TornFile(works, outcome)]

\* Mutant of is_valid_json_file: an empty list counts as no data.
is_valid_json_file_truthy(file) ==
    CASE file.kind = "array" ->
             [raised |-> FALSE, value |-> file.data # <<>>]
      [] file.kind = "badutf8" -> [raised |-> TRUE, value |-> FALSE]
      [] OTHER -> [raised |-> FALSE, value |-> FALSE]

\* os.path.exists, json.load, isinstance(data, list).  JSONDecodeError and
\* IOError are caught; the UnicodeDecodeError of a file that is not UTF-8
\* is neither.
is_valid_json_file(file) ==
    CASE file.kind = "absent" -> [raised |-> FALSE, value |-> FALSE]
      [] file.kind = "array" -> [raised |-> FALSE, value |-> TRUE]
      [] file.kind = "object" -> [raised |-> FALSE, value |-> FALSE]
      [] file.kind = "truncated" -> [raised |-> FALSE, value |-> FALSE]
      [] file.kind = "unreadable" -> [raised |-> FALSE, value |-> FALSE]
      [] OTHER -> [raised |-> TRUE, value |-> FALSE]

(***************************************************************************)
(* JobResult: the dictionaries process_single_journal returns.            *)
(***************************************************************************)
NoResult == [status |-> "none"]

SkippedResult(line, name, count) ==
    [line_number |-> line, journal_name |-> name, status |-> "skipped",
     articles_count |-> count,
     message |-> "File already exists and is valid"]

\* Mutant of NotFoundResult: the result carries a count of 0.
NotFoundResultWithCount(line, name) ==
    [line_number |-> line, journal_name |-> name, status |-> "not_found",
     articles_count |-> 0,
     message |-> "Journal not found in OpenAlex database"]

NotFoundResult(line, name) ==
    [line_number |-> line, journal_name |-> name, status |-> "not_found",
     message |-> "Journal not found in OpenAlex database"]

SearchFailedResult(line, name) ==
    [line_number |-> line, journal_name |-> name, status |-> "failed",
     message |-> "Search failed"]

CountFailedResult(line, name, display) ==
    [line_number |-> line, journal_name |-> name,
     journal_display_name |-> display, status |-> "failed",
     message |-> "Failed to get article count"]

SuccessResult(line, name, display, count, message) ==
    [line_number |-> line, journal_name |-> name,
     journal_display_name |-> display, status |-> "success",
     articles_count |-> count, message |-> message]

DownloadFailedResult(line, name, display) ==
    [line_number |-> line, journal_name |-> name,
     journal_display_name |-> display, status |-> "failed",
     message |-> "Download failed"]

HasCount(r) == "articles_count" \in DOMAIN r


(***************************************************************************)
(* State.                                                                  *)
(***************************************************************************)
VARIABLES
    args,           \* main: the input file's lines, --start, --end
    journals,       \* read_journal_list(input_file)
    start_idx,      \* main: args.start - 1
    end_idx,        \* main: args.end, or len(journals)
    results,        \* main: the JobResults so far
    pc,             \* where the program is
    files,          \* output directory: line number -> <line>.json
    log,            \* the progress log file
    log_at_start,   \* the progress log file when the run started
    log_writes,     \* how many save_progress_log calls have completed
    line_number,    \* process_single_journal: its line_number argument
    journal,        \* process_single_journal: the search's match
    total_count,    \* process_single_journal: the reported count
    works,          \* process_single_journal: what download_all_works gave
    call,           \* events of the job's latest request step
    steps,          \* the job's steps so far, in order
    result,         \* the JobResult the job returned
    answer,         \* how the remote service answered the latest request step
    written,        \* how the job's write of its output file ended
    world,          \* line number -> what the environment may answer
    max_workers,    \* the pool size download_all_works runs with
    prev,           \* Spec: how the previous call on this line ended
    raw,            \* SpecWork, SpecAbstract: the argument of the function
    out,            \* SpecWork, SpecAbstract: what the function returned
    site,           \* SpecPool: which script's download_all_works runs
    queue,          \* SpecPool: the executor's work queue (pages)
    futures,        \* SpecPool: the submitted futures, in submission order
    all_works,      \* SpecPool: download_all_works' all_works
    collected       \* SpecPool: the pages whose future has been collected

vars == <<args, journals, start_idx, end_idx, results, pc, files, log,
          log_at_start, log_writes, line_number, journal, total_count,
          works, call, steps, result, answer, written, world, max_workers,
          prev, raw, out, site, queue, futures, all_works, collected>>

poolVars == <<site, queue, futures, all_works, collected>>

\* The variables of download_all_works' pool, at rest.
PoolIdle ==
    /\ site = "batch"
    /\ queue = <<>>
    /\ futures = <<>>
    /\ all_works = <<>>
    /\ collected = <<>>

mainVars == <<args, journals, start_idx, end_idx, results, log, log_at_start,
              log_writes, world, max_workers, raw, out, poolVars>>

\* The name on a line of the input file.
JournalName(i) == "Journal " \o ToString(i)

\* The command line when main has not been given one: no input file,
\* --start 1, no --end (0).
NoArgs == [input_file |-> <<>>, start |-> 1, end |-> 0]

\* An environment that may answer anything: every request may fail up to
\* MAX_RETRIES times, and every write may fail.
FreeEnv ==
    [search |-> {Script(n, r) : n \in NFails, r \in SearchResponses},
     count |-> {Script(n, c) : n \in NFails, c \in Counts},
     page_nfail |-> [p \in 1 .. MaxPages |-> PageNFails],
     write |-> WriteOutcomes]

\* The page scripts an environment allows for a download of num_pages pages.
PageScripts(env, num_pages) ==
    {nfail \in [1 .. num_pages -> PageNFails] :
        \A p \in 1 .. num_pages : nfail[p] \in env.page_nfail[p]}

\* The lists a completed save of an earlier call can have left: every
\* page fetched, for each count, and a download whose first page failed.
SavedLists ==
    {download_all_works("S1", c, MAX_WORKERS,
                        [p \in 1 .. NumPages(c) |-> 0]).works : c \in Counts}
    \cup {download_all_works("S1", PER_PAGE + 1, MAX_WORKERS,
                             [p \in 1 .. 2 |->
                                 IF p = 1 THEN MAX_RETRIES ELSE 0]).works}

\* What <line>.json may be when a run starts: absent, left by a completed
\* save, left by an interrupted save, or not an array.
InitialFiles ==
    {NoFile, ObjectFile, TruncatedFile, BadUtf8File, UnreadableFile}
    \cup {ArrayFile(d) : d \in SavedLists}

\* Positions no step of the job or of main's loop leaves: the job has
\* returned to its caller, an exception has left the program, the process
\* was killed, main has ended.
TerminalPcs == {"returned", "raised", "crashed", "done"}

(***************************************************************************)
(* process_single_journal, step by step.                                   *)
(***************************************************************************)
JobLocalsReset ==
    /\ journal' = NoJournal
    /\ total_count' = 0
    /\ works' = <<>>
    /\ call' = <<>>
    /\ steps' = <<>>
    /\ result' = NoResult
    /\ answer' = <<>>
    /\ written' = "none"

\* return {...}
Return(r) ==
    /\ result' = r
    /\ pc' = "returned"

\* The resume check: a valid file is read again and the job is skipped.
\* An exception of is_valid_json_file is not caught.
ResumeCheck ==
    /\ pc = "resume"
    /\ steps' = Append(steps, "resume")
    /\ LET v == is_valid_json_file(files[line_number])
       IN  IF v.raised
           THEN pc' = "raised" /\ UNCHANGED result
           ELSE IF v.value
           THEN Return(SkippedResult(line_number, journals[line_number],
                                     NumWorks(files[line_number].data)))
           ELSE pc' = "search" /\ UNCHANGED result
    /\ UNCHANGED <<mainVars, files, line_number, journal, total_count,
                   works, call, answer, written, prev>>

\* journal = search_journal_by_name(journal_name), in its try block.
SearchStep ==
    /\ pc = "search"
    /\ steps' = Append(steps, "search")
    /\ \E script \in world[line_number].search :
          LET r == search_journal_by_name(journals[line_number], script)
          IN  /\ call' = r.events
              /\ answer' = script
              /\ IF r.raised
                 THEN /\ Return(SearchFailedResult(line_number,
                                                   journals[line_number]))
                      /\ UNCHANGED journal
                 ELSE IF ~r.found
                 THEN /\ Return(NotFoundResult(line_number,
                                               journals[line_number]))
                      /\ UNCHANGED journal
                 ELSE /\ journal' = r.journal
                      /\ pc' = "count"
                      /\ UNCHANGED result
    /\ UNCHANGED <<mainVars, files, line_number, total_count, works,
                   written, prev>>

\* Mutant of AfterCount: the test for a count of 0 is missing.
AfterCountNoTest(count) == "fetch"

\* if total_count == 0: an empty result is saved, nothing is downloaded.
AfterCount(count) == IF count = 0 THEN "save_empty" ELSE "fetch"

\* Mutant of CountStep: a count request that fails leaves an empty output
\* file behind, as a count of 0 does.
CountStepSavesOnFailure ==
    /\ pc = "count"
    /\ steps' = Append(steps, "count")
    /\ \E script \in world[line_number].count :
          LET r == get_total_works_count(journal.id, script)
          IN  /\ call' = r.events
              /\ answer' = script
              /\ IF r.raised
                 THEN /\ Return(CountFailedResult(line_number,
                                    journals[line_number],
                                    journal.display_name))
                      /\ files' = [files EXCEPT
                                      ![line_number] = ArrayFile(<<>>)]
                      /\ UNCHANGED total_count
                 ELSE /\ total_count' = r.value
                      /\ pc' = AfterCount(r.value)
                      /\ UNCHANGED <<result, files>>
    /\ UNCHANGED <<mainVars, line_number, journal, works, written, prev>>

\* total_count = get_total_works_count(journal_id), in its try block.
CountStep ==
    /\ pc = "count"
    /\ steps' = Append(steps, "count")
    /\ \E script \in world[line_number].count :
          LET r == get_total_works_count(journal.id, script)
          IN  /\ call' = r.events
              /\ answer' = script
              /\ IF r.raised
                 THEN /\ Return(CountFailedResult(line_number,
                                    journals[line_number],
                                    journal.display_name))
                      /\ UNCHANGED total_count
                 ELSE /\ total_count' = r.value
                      /\ pc' = AfterCount(r.value)
                      /\ UNCHANGED result
    /\ UNCHANGED <<mainVars, files, line_number, journal, works, written,
                   prev>>

\* Mutant of SaveEmpty: after saving the empty result the job does not
\* return but goes on to the download.
SaveEmptyFallsThrough ==
    /\ pc = "save_empty"
    /\ steps' = Append(steps, "save")
    /\ \E outcome \in world[line_number].write :
          LET w == save_to_json(<<>>, files[line_number], outcome)
          IN  /\ files' = [files EXCEPT ![line_number] = w.file]
              /\ written' = outcome
              /\ pc' = IF w.raised THEN "raised" ELSE "fetch"
    /\ UNCHANGED <<mainVars, line_number, journal, total_count, works,
                   call, answer, prev, result>>

\* save_to_json([], output_file), outside any try block.
SaveEmpty ==
    /\ pc = "save_empty"
    /\ steps' = Append(steps, "save")
    /\ \E outcome \in world[line_number].write :
          LET w == save_to_json(<<>>, files[line_number], outcome)
          IN  /\ files' = [files EXCEPT ![line_number] = w.file]
              /\ written' = outcome
              /\ IF w.raised
                 THEN pc' = "raised" /\ UNCHANGED result
                 ELSE Return(SuccessResult(line_number,
                                 journals[line_number],
                                 journal.display_name, 0, "No articles"))
    /\ UNCHANGED <<mainVars, line_number, journal, total_count, works,
                   call, answer, prev>>

\* works = download_all_works(journal_id, total_count)
FetchStep ==
    /\ pc = "fetch"
    /\ steps' = Append(steps, "fetch")
    /\ \E nfail \in PageScripts(world[line_number],
                                 NumPages(total_count)) :
          LET d == download_all_works(journal.id, total_count,
                                      max_workers, nfail)
          IN  /\ works' = d.works
              /\ call' = d.events
              /\ answer' = nfail
    /\ pc' = "save"
    /\ UNCHANGED <<mainVars, files, line_number, journal, total_count,
                   result, written, prev>>

\* Mutant of SaveWorks: the result reports the count the count request
\* gave, not the number of works saved.
SaveWorksReportsTotal ==
    /\ pc = "save"
    /\ steps' = Append(steps, "save")
    /\ \E outcome \in world[line_number].write :
          LET w == save_to_json(works, files[line_number], outcome)
          IN  /\ files' = [files EXCEPT ![line_number] = w.file]
              /\ written' = outcome
              /\ IF w.raised
                 THEN Return(DownloadFailedResult(line_number,
                                 journals[line_number],
                                 journal.display_name))
                 ELSE Return(SuccessResult(line_number,
                                 journals[line_number],
                                 journal.display_name, total_count,
                                 "Success"))
    /\ UNCHANGED <<mainVars, line_number, journal, total_count, works,
                   call, answer, prev>>

\* save_to_json(works, output_file), in the try block of the download.
SaveWorks ==
    /\ pc = "save"
    /\ steps' = Append(steps, "save")
    /\ \E outcome \in world[line_number].write :
          LET w == save_to_json(works, files[line_number], outcome)
          IN  /\ files' = [files EXCEPT ![line_number] = w.file]
              /\ written' = outcome
              /\ IF w.raised
                 THEN Return(DownloadFailedResult(line_number,
                                 journals[line_number],
                                 journal.display_name))
                 ELSE Return(SuccessResult(line_number,
                                 journals[line_number],
                                 journal.display_name, NumWorks(works),
                                 "Success"))
    /\ UNCHANGED <<mainVars, line_number, journal, total_count, works,
                   call, answer, prev>>

\* The process is killed between two steps.
Crash ==
    /\ pc \notin TerminalPcs
    /\ pc' = "crashed"
    /\ UNCHANGED <<mainVars, files, line_number, journal, total_count,
                   works, call, steps, result, answer, written, prev>>

\* The process is killed while save_to_json writes.
CrashInSave ==
    /\ pc \in {"save_empty", "save"}
    /\ \E how \in {"cut_text", "cut_char"} :
          /\ files' = [files EXCEPT ![line_number] = TornFile(works, how)]
          /\ written' = how
    /\ pc' = "crashed"
    /\ UNCHANGED <<mainVars, line_number, journal, total_count, works,
                   call, steps, result, answer, prev>>

JobStep ==
    \/ ResumeCheck
    \/ SearchStep
    \/ CountStep
    \/ SaveEmpty
    \/ FetchStep
    \/ SaveWorks
    \/ Crash
    \/ CrashInSave

(***************************************************************************)
(* Spec: process_single_journal on one line, called again after it ends.   *)
(***************************************************************************)
Init ==
    /\ args = NoArgs
    /\ journals = [i \in 1 .. MaxLine |-> JournalName(i)]
    /\ start_idx = 0
    /\ end_idx = MaxLine
    /\ results = <<>>
    /\ log = NoFile
    /\ log_at_start = NoFile
    /\ log_writes = 0
    /\ line_number \in 1 .. MaxLine
    /\ \E f \in InitialFiles :
          files = [l \in 1 .. MaxLine |->
                      IF l = line_number THEN f ELSE NoFile]
    /\ world = [l \in 1 .. MaxLine |-> FreeEnv]
    /\ max_workers \in PoolSizes
    /\ pc = "resume"
    /\ journal = NoJournal
    /\ total_count = 0
    /\ works = <<>>
    /\ call = <<>>
    /\ steps = <<>>
    /\ result = NoResult
    /\ answer = <<>>
    /\ written = "none"
    /\ prev = NoResult
    /\ raw = <<>>
    /\ out = <<>>
    /\ PoolIdle

\* A later run calls process_single_journal on the line again.
CallAgain ==
    /\ pc \in {"returned", "raised", "crashed"}
    /\ prev' = IF pc = "returned" THEN result ELSE [status |-> pc]
    /\ pc' = "resume"
    /\ JobLocalsReset
    /\ UNCHANGED <<mainVars, files, line_number>>

Next == JobStep \/ CallAgain

Spec == Init /\ [][Next]_vars


(***************************************************************************)
(* main: the loop over the selected range, and the progress log.           *)
(***************************************************************************)
\* journals[start_idx:end_idx]
journals_to_process ==
    SubSeq(journals, start_idx + 1,
           IF end_idx < Len(journals) THEN end_idx ELSE Len(journals))

\* Mutant of LineNumber: the index is not converted back to a line number.
LineNumberZeroBased(idx) == start_idx + idx

\* line_number = start_idx + idx + 1
LineNumber(idx) == start_idx + idx + 1

\* for idx, journal_name in enumerate(journals_to_process): the next
\* journal, with line_number = start_idx + idx + 1.
LoopNext ==
    /\ pc = "loop"
    /\ Len(results) < Len(journals_to_process)
    /\ line_number' = LineNumber(Len(results))
    /\ JobLocalsReset
    /\ pc' = "resume"
    /\ UNCHANGED <<mainVars, files, prev>>

\* Mutant of CheckpointDue: the loop index is tested, not len(results).
CheckpointDueByIndex(n) == (n - 1) % CHECKPOINT_EVERY = 0

\* if len(results) % 10 == 0
CheckpointDue(n) == n % CHECKPOINT_EVERY = 0

\* results.append(result), and whether the log is due; the pause between
\* journals follows.
AppendResult ==
    /\ pc = "returned"
    /\ results' = Append(results, result)
    /\ pc' = IF CheckpointDue(Len(results')) THEN "checkpoint" ELSE "loop"
    /\ UNCHANGED <<raw, out, poolVars, args, journals, start_idx, end_idx,
                   log, log_at_start, log_writes, world, max_workers, files,
                   line_number, journal, total_count, works, call, steps,
                   result, answer, written, prev>>

\* with open(log_file, 'w') as f: json.dump(results, f)
save_progress_log(res) == ArrayFile(res)

\* save_progress_log(results, args.log) inside the loop.
Checkpoint ==
    /\ pc = "checkpoint"
    /\ log' = save_progress_log(results)
    /\ log_writes' = log_writes + 1
    /\ pc' = "loop"
    /\ UNCHANGED <<raw, out, poolVars, args, journals, start_idx, end_idx,
                   results, log_at_start, world, max_workers, files,
                   line_number, journal, total_count, works, call, steps,
                   result, answer, written, prev>>

\* The loop is over.
LoopEnd ==
    /\ pc = "loop"
    /\ Len(results) = Len(journals_to_process)
    /\ pc' = "final"
    /\ UNCHANGED <<mainVars, files, line_number, journal, total_count,
                   works, call, steps, result, answer, written, prev>>

\* save_progress_log(results, args.log) after the loop.
FinalLog ==
    /\ pc = "final"
    /\ log' = save_progress_log(results)
    /\ log_writes' = log_writes + 1
    /\ pc' = "done"
    /\ UNCHANGED <<raw, out, poolVars, args, journals, start_idx, end_idx,
                   results, log_at_start, world, max_workers, files,
                   line_number, journal, total_count, works, call, steps,
                   result, answer, written, prev>>

\* The process is killed while save_progress_log writes: open() has
\* emptied the file and only a part of the text is on disk.
CrashInLogWrite ==
    /\ pc \in {"checkpoint", "final"}
    /\ \E how \in {"cut_text", "cut_char"} : log' = TornFile(results, how)
    /\ pc' = "crashed"
    /\ UNCHANGED <<raw, out, poolVars, args, journals, start_idx, end_idx,
                   results, log_at_start, log_writes, world, max_workers,
                   files, line_number, journal, total_count, works, call,
                   steps, result, answer, written, prev>>

MainStep ==
    \/ LoopNext
    \/ AppendResult
    \/ Checkpoint
    \/ LoopEnd
    \/ FinalLog
    \/ CrashInLogWrite

(***************************************************************************)
(* SpecBatch: one run of main.  What the remote service and the disk do    *)
(* for each line is fixed when the run starts, out of a list of scenarios  *)
(* that covers every way a job can end.                                    *)
(***************************************************************************)
Found == <<SourceB, SourceA>>

Scenario(search, count, page_nfail, write) ==
    [search |-> {search}, count |-> {count},
     page_nfail |-> [p \in 1 .. MaxPages |-> {page_nfail[p]}],
     write |-> {write}]

AllPages(n) == [p \in 1 .. MaxPages |-> n]

\* hazard = "write": the write of an empty result fails.
Scenarios(hazard) ==
    << \* one work, downloaded and saved
       Scenario(Script(0, Found), Script(0, 1), AllPages(0), "ok"),
       \* no candidate
       Scenario(Script(1, <<>>), Script(0, 1), AllPages(0), "ok"),
       \* the search fails for good
       Scenario(Script(MAX_RETRIES, Found), Script(0, 1), AllPages(0), "ok"),
       \* no works
       Scenario(Script(0, Found), Script(1, 0), AllPages(0),
                IF hazard = "write" THEN "open_error" ELSE "ok"),
       \* the count fails for good
       Scenario(Script(0, Found), Script(MAX_RETRIES, 1), AllPages(0), "ok"),
       \* two pages, the second one dropped
       Scenario(Script(0, Found), Script(0, PER_PAGE + 1),
                [p \in 1 .. MaxPages |-> IF p = 2 THEN MAX_RETRIES ELSE 0],
                "ok"),
       \* one work, and the save fails half-way
       Scenario(Script(0, Found), Script(0, 1), AllPages(1), "cut_text") >>

ScenarioOf(l, shift, hazard) ==
    Scenarios(hazard)[((l + shift) % Len(Scenarios(hazard))) + 1]

\* Output files of an earlier run: every fifth line was completed, and one
\* line holds a file cut short; hazard = "utf8": it was cut inside a
\* character.
EarlierFile(l, hazard) ==
    IF l % 5 = 0 THEN ArrayFile(<<process_work(WorkRun(1, 1))>>)
    ELSE IF l = 7 THEN (IF hazard = "utf8" THEN BadUtf8File
                        ELSE TruncatedFile)
    ELSE NoFile

\* The log an earlier run over lines 1 to 2 left.
StaleLog ==
    ArrayFile(<<SkippedResult(1, JournalName(1), 1),
                NotFoundResult(2, JournalName(2))>>)

(***************************************************************************)
(* read_journal_list.  A line of the input file is the sequence of its     *)
(* pieces: runs of whitespace, the newline included, and the text between  *)
(* them.                                                                   *)
(***************************************************************************)
Whitespace == {" ", "\t", "\n"}

RECURSIVE Join(_, _)
\* sep.join(strings)
Join(strings, sep) ==
    IF strings = <<>> THEN ""
    ELSE IF Len(strings) = 1 THEN strings[1]
    ELSE strings[1] \o sep \o Join(Tail(strings), sep)

RECURSIVE LStrip(_)
LStrip(line) ==
    IF line # <<>> /\ Head(line) \in Whitespace THEN LStrip(Tail(line))
    ELSE line

RECURSIVE RStrip(_)
RStrip(line) ==
    IF line # <<>> /\ line[Len(line)] \in Whitespace
    THEN RStrip(SubSeq(line, 1, Len(line) - 1))
    ELSE line

\* line.strip()
Strip(line) == Join(RStrip(LStrip(line)), "")

\* Mutant of read_journal_list: blank lines are kept.
read_journal_list_all_lines(lines) ==
    [i \in DOMAIN lines |-> Strip(lines[i])]

\* [line.strip() for line in f if line.strip()]
read_journal_list(lines) ==
    SelectSeq([i \in DOMAIN lines |-> Strip(lines[i])],
              LAMBDA text : text # "")

\* An input file of MaxBatch names, one per line.
PlainInput == [i \in 1 .. MaxBatch |-> <<JournalName(i), "\n">>]

\* The same names with blank lines between them: an empty line before every
\* third name, which is indented; a line of spaces after every seventh
\* name, which has trailing spaces; and a last line without a newline.
SpacedInput ==
    Flatten([i \in 1 .. MaxBatch |->
                IF i % 3 = 0
                THEN << <<"\n">>, <<" ", JournalName(i), "\n">> >>
                ELSE IF i % 7 = 0
                THEN << <<JournalName(i), " ", "\n">>, <<" ", "\t", "\n">> >>
                ELSE << <<JournalName(i), "\n">> >>])
    \o << <<" ">> >>

InputFiles == {PlainInput, SpacedInput}

\* --start and --end (0: not given).
StartChoices == {1, 4}
EndChoices == {0, 8, MaxBatch - 2}
Shifts == {0, 3}
Hazards == {"none", "write", "utf8"}

InitBatch ==
    /\ \E f \in InputFiles, start \in StartChoices, end \in EndChoices :
          args = [input_file |-> f, start |-> start, end |-> end]
    /\ journals = read_journal_list(args.input_file)
    /\ start_idx = args.start - 1
    /\ end_idx = IF args.end # 0 THEN args.end ELSE Len(journals)
    /\ results = <<>>
    /\ log \in {NoFile, StaleLog}
    /\ log_at_start = log
    /\ log_writes = 0
    /\ line_number = 0
    /\ \E shift \in Shifts, hazard \in Hazards :
          /\ world = [l \in 1 .. MaxBatch |-> ScenarioOf(l, shift, hazard)]
          /\ files = [l \in 1 .. MaxBatch |-> EarlierFile(l, hazard)]
    /\ max_workers = MAX_WORKERS
    /\ pc = "loop"
    /\ journal = NoJournal
    /\ total_count = 0
    /\ works = <<>>
    /\ call = <<>>
    /\ steps = <<>>
    /\ result = NoResult
    /\ answer = <<>>
    /\ written = "none"
    /\ prev = NoResult
    /\ raw = <<>>
    /\ out = <<>>
    /\ PoolIdle

NextBatch == JobStep \/ MainStep

SpecBatch == InitBatch /\ [][NextBatch]_vars


(***************************************************************************)
(* Claims.                                                                 *)
(***************************************************************************)
\* The steps the job has run lead through the resume check only.
OnlyResumeRan == steps = <<"resume">>

\* C1: the job is about to run its resume check on a line whose output
\* file is a JSON array, or on a line whose previous call returned
\* 'success'.
C1_Case ==
    /\ pc = "resume"
    /\ \/ files[line_number].kind = "array"
       \/ prev.status = "success"

\* C1 (resume idempotence): a call on a line whose output file exists and
\* decodes to a JSON array issues no request (no search, count or page
\* request), leaves every file as it is and returns 'skipped' with
\* articles_count the number of records in the file; a call that follows a
\* call that returned 'success' finds such a file, holding as many records
\* as that call reported.  (The only other step from there is the process
\* being killed.)
C1_ResumeIdempotence ==
    [][C1_Case =>
        /\ files[line_number].kind = "array"
        /\ prev.status = "success" =>
              NumWorks(files[line_number].data) = prev.articles_count
        /\ files' = files
        /\ call' = <<>>
        /\ \/ pc' = "crashed"
           \/ /\ pc' = "returned"
              /\ OnlyResumeRan'
              /\ result' = SkippedResult(line_number, journals[line_number],
                               NumWorks(files[line_number].data))]_vars

\* C1 witness: a second call, after a call that returned 'success' with at
\* least one record, has returned 'skipped' with that count and no request.
C1_Witness ==
    /\ pc = "returned"
    /\ prev.status = "success"
    /\ prev.articles_count > 0
    /\ result.status = "skipped"
    /\ result.articles_count = prev.articles_count
    /\ call = <<>>


\* The count request has returned 0: the count step has run, it has not
\* ended the job 'failed', and the count it gave is 0.
CountReturnedZero ==
    /\ Len(steps) >= 3
    /\ steps[3] = "count"
    /\ total_count = 0
    /\ ~(steps = <<"resume", "search", "count">> /\ result.status = "failed")

\* The count request has returned a count that is not 0.
CountReturnedWorks ==
    /\ total_count > 0
    /\ Len(steps) >= 3
    /\ steps[3] = "count"

C3_NoExceptionPropagates == pc # "raised"


Range(s) == {s[i] : i \in DOMAIN s}

IsPrefix(a, b) == Len(a) <= Len(b) /\ SubSeq(b, 1, Len(a)) = a

\* C4 (the batch never aborts on a journal): whenever main has stopped
\* without being killed, it has run to its end: every line of the range
\* has its JobResult and the final log holds them all.
C4_BatchNeverAborts ==
    pc \in {"raised", "done"} =>
        /\ pc = "done"
        /\ Len(results) = Len(journals_to_process)
        /\ log = ArrayFile(results)

\* C5 (the log is a prefix of progress): once the run has touched the
\* progress log, the file is a JSON array holding a prefix of the
\* JobResults of the jobs completed so far, also after a crash.
C5_LogIsPrefixOfResults ==
    log # log_at_start =>
        /\ log.kind = "array"
        /\ IsPrefix(log.data, results)

\* The results the log holds after n jobs when every due checkpoint has
\* been written.
Checkpointed(n) ==
    SubSeq(results, 1, CHECKPOINT_EVERY * (n \div CHECKPOINT_EVERY))

LogUntorn == log.kind \in {"absent", "array"}

\* The log is written after the 10th, 20th, ... job and once more at the
\* end: the completed writes are one per ten results, less the one that is
\* due at "checkpoint", plus the final one; the final one holds every
\* result of the range.
C6_Schedule ==
    /\ pc \notin {"checkpoint", "done", "crashed"} =>
          log_writes = Len(results) \div CHECKPOINT_EVERY
    /\ pc = "checkpoint" =>
          /\ Len(results) > 0
          /\ Len(results) % CHECKPOINT_EVERY = 0
          /\ log_writes = Len(results) \div CHECKPOINT_EVERY - 1
    /\ pc = "done" =>
          /\ log_writes = Len(results) \div CHECKPOINT_EVERY + 1
          /\ Len(results) = Len(journals_to_process)
          /\ log = ArrayFile(results)
    /\ pc = "crashed" =>
          \/ log_writes = Len(results) \div CHECKPOINT_EVERY
          \/ /\ Len(results) > 0
             /\ Len(results) % CHECKPOINT_EVERY = 0
             /\ log_writes = Len(results) \div CHECKPOINT_EVERY - 1
    /\ pc # "crashed" => LogUntorn
    /\ (log_writes > 0 /\ LogUntorn /\ pc # "done") =>
          log = ArrayFile(SubSeq(results, 1, CHECKPOINT_EVERY * log_writes))

\* The run was killed after a job had completed, outside a write of the
\* log and after every checkpoint that was due had been written.
CrashedBetweenCheckpoints ==
    /\ pc = "crashed"
    /\ Len(results) >= 1
    /\ LogUntorn
    /\ log_writes = Len(results) \div CHECKPOINT_EVERY

LastCallWasSearch == steps = <<"resume", "search">>

LastCallWasCount ==
    /\ Len(steps) >= 3
    /\ steps[3] = "count"
    /\ \A i \in DOMAIN steps : steps[i] # "fetch"

LastCallWasFetch == \E i \in DOMAIN steps : steps[i] = "fetch"

\* The events of the call that fetches page p: from the pause before its
\* first request to its last request.
PageSegment(events, p) ==
    LET at == {i \in DOMAIN events :
                  events[i].op = "page" /\ events[i].n = p}
        first == CHOOSE i \in at : \A j \in at : i <= j
        last == CHOOSE i \in at : \A j \in at : j <= i
    IN  IF at = {} THEN <<>> ELSE SubSeq(events, first - 1, last)

\* The requests and the waits of a call, without the rate-limit pauses.
AttemptsAndWaits(events) ==
    SelectSeq(events, LAMBDA e : e.op \in RequestOps \cup {"backoff"})

\* What the retry policy allows a call to do when the remote service fails
\* its first nfail attempts: the attempts stop at the first that succeeds
\* or at the third; each failed attempt but the last is followed by a wait,
\* of 5 and then 10 seconds, and then by the next attempt; nothing follows
\* the last attempt.
RetryPolicy(events, nfail) ==
    LET reqs == Requests(events)
        waits == OpsOf(events, "backoff")
        both == AttemptsAndWaits(events)
    IN  /\ MAX_RETRIES = 3
        /\ Len(reqs) >= 1
        /\ Len(reqs) <= MAX_RETRIES
        /\ Len(reqs) = IF nfail < MAX_RETRIES THEN nfail + 1 ELSE MAX_RETRIES
        /\ \A i \in DOMAIN reqs :
              reqs[i].ok <=> (i = Len(reqs) /\ nfail < MAX_RETRIES)
        /\ Len(waits) = Len(reqs) - 1
        /\ IsPrefix([i \in DOMAIN waits |-> waits[i].n], <<5, 10>>)
        /\ \A i \in DOMAIN waits : waits[i].n = RETRY_DELAY * (2 ^ (i - 1))
        /\ \A i \in DOMAIN both : (both[i].op = "backoff") <=> (i % 2 = 0)
        /\ Len(both) = 2 * Len(reqs) - 1
        /\ events[Len(events)].op \in RequestOps

\* C7 (retry policy): every search, count and page call follows the retry
\* policy: at most MAX_RETRIES = 3 attempts, waits of RETRY_DELAY * 2^attempt
\* (5s, then 10s) between them, no attempt after the first that succeeds,
\* whose value is what the call returns, and the failure surfaced to the
\* enclosing step only after the last attempt has failed, with no wait
\* after it.
C7_RetryPolicy ==
    /\ LastCallWasSearch =>
          /\ RetryPolicy(call, answer.nfail)
          /\ answer.nfail = MAX_RETRIES =>
                /\ pc = "returned"
                /\ result = SearchFailedResult(line_number,
                                               journals[line_number])
          /\ answer.nfail < MAX_RETRIES =>
                /\ result.status # "failed"
                /\ answer.resp # <<>> => journal \in Range(answer.resp)
                /\ answer.resp = <<>> => result.status = "not_found"
    /\ LastCallWasCount =>
          /\ RetryPolicy(call, answer.nfail)
          /\ answer.nfail = MAX_RETRIES =>
                /\ pc = "returned"
                /\ result = CountFailedResult(line_number,
                                journals[line_number], journal.display_name)
          /\ answer.nfail < MAX_RETRIES =>
                /\ total_count = answer.resp
                /\ steps = <<"resume", "search", "count">> => result = NoResult
    /\ LastCallWasFetch =>
          \A p \in DOMAIN answer :
              /\ RetryPolicy(PageSegment(call, p), answer[p])
              /\ answer[p] < MAX_RETRIES <=>
                    \E i \in DOMAIN works :
                        works[i].page = p /\ works[i].n > 0

\* C7 witness: the count call failed twice, waited 5s and 10s, and its third
\* attempt gave the count.
C7_Witness ==
    /\ LastCallWasCount
    /\ answer.nfail = 2
    /\ Len(Requests(call)) = 3
    /\ [i \in 1 .. 2 |-> OpsOf(call, "backoff")[i].n] = <<5, 10>>
    /\ total_count = answer.resp
    /\ total_count > 0

\* C8 (an empty search result is final): when the search is answered with
\* no candidate, the answered request is the last one (the only one when the
\* first attempt is answered) and the job ends 'not_found', not 'failed';
\* when it is answered with candidates, the first one is the match.
C8_EmptySearchNotRetried ==
    /\ (LastCallWasSearch /\ answer.nfail < MAX_RETRIES) =>
          LET reqs == Requests(call)
          IN  /\ reqs[Len(reqs)].ok
              /\ \A i \in 1 .. (Len(reqs) - 1) : ~reqs[i].ok
              /\ answer.nfail = 0 => Len(reqs) = 1
              /\ \A i \in DOMAIN reqs : reqs[i].op = "search"
              /\ IF answer.resp = <<>>
                 THEN /\ pc = "returned"
                      /\ result = NotFoundResult(line_number,
                                                 journals[line_number])
                      /\ journal = NoJournal
                 ELSE /\ journal = answer.resp[1]
                      /\ pc \in {"count", "crashed"}
                      /\ result = NoResult
    /\ result.status = "not_found" =>
          /\ LastCallWasSearch
          /\ answer.nfail < MAX_RETRIES
          /\ answer.resp = <<>>

\* C8 witness: the first search request was answered with no candidate and
\* the job ended 'not_found' after that one request.
C8_Witness ==
    /\ LastCallWasSearch
    /\ answer = Script(0, <<>>)
    /\ Len(Requests(call)) = 1
    /\ result.status = "not_found"

\* The pages of the download whose fetch succeeded, in page order.
SucceededPages ==
    SelectSeq([p \in DOMAIN answer |-> p],
              LAMBDA p : answer[p] < MAX_RETRIES)

\* How many works page p of a journal with `total` works holds.
PageSize(total, p) ==
    IF p * PER_PAGE <= total THEN PER_PAGE ELSE total - (p - 1) * PER_PAGE

RECURSIVE SumSizes(_, _)
SumSizes(total, pages) ==
    IF pages = <<>> THEN 0
    ELSE PageSize(total, Head(pages)) + SumSizes(total, Tail(pages))

CeilDiv(a, b) == CHOOSE k \in 0 .. a : k * b >= a /\ (k - 1) * b < a

\* C10 (page math): a download of total_count >= 1 works submits exactly
\* the pages 1 .. ceil(total_count / 200), one fetch each, for every pool
\* size; every page request carries one of these page numbers and the
\* journal's identifier, and a page that is answered at once is requested
\* once; 450 works are 3 pages.
C10_PageMath ==
    LastCallWasFetch =>
        LET num_pages == CeilDiv(total_count, 200)
            submitted == OpsOf(call, "submit")
            requested == OpsOf(call, "page")
        IN  /\ total_count >= 1
            /\ max_workers \in PoolSizes
            /\ [i \in DOMAIN submitted |-> submitted[i].n]
                  = [i \in 1 .. num_pages |-> i]
            /\ \A i \in DOMAIN requested :
                  /\ requested[i].n \in 1 .. num_pages
                  /\ requested[i].key = journal.id
            /\ \A p \in 1 .. num_pages :
                  LET mine == SelectSeq(requested, LAMBDA e : e.n = p)
                  IN  /\ Len(mine) >= 1
                      /\ Len(mine) <= MAX_RETRIES
                      /\ answer[p] = 0 => Len(mine) = 1
            /\ (\A p \in 1 .. num_pages : answer[p] = 0) =>
                  Len(requested) = num_pages
            /\ total_count = 450 =>
                  /\ [i \in DOMAIN submitted |-> submitted[i].n] = <<1, 2, 3>>
                  /\ {requested[i].n : i \in DOMAIN requested} = {1, 2, 3}
                  /\ (\A p \in 1 .. 3 : answer[p] = 0) =>
                        [i \in DOMAIN requested |-> requested[i].n]
                            = <<1, 2, 3>>

\* C10 witness: 450 works were downloaded with a pool of 5 workers, in
\* exactly 3 page requests, for pages 1, 2 and 3.
C10_Witness ==
    /\ LastCallWasFetch
    /\ total_count = 450
    /\ max_workers = 5
    /\ [i \in DOMAIN OpsOf(call, "page") |-> OpsOf(call, "page")[i].n]
          = <<1, 2, 3>>
    /\ NumWorks(works) = 450

(***************************************************************************)
(* JobResults of a batch run.                                              *)
(***************************************************************************)
JobStatuses == {"success", "skipped", "not_found", "failed"}

\* A well-formed JobResult: one of the four statuses, and a count exactly
\* when the status is 'success' or 'skipped'.
WellFormedResult(r) ==
    /\ r.status \in JobStatuses
    /\ HasCount(r) <=> r.status \in {"success", "skipped"}
    /\ HasCount(r) => r.articles_count \in Nat
    /\ r.line_number >= 1

\* C11 (JobResult invariants): every JobResult of a batch run, appended to
\* the results or just returned, has one of the four statuses, carries
\* articles_count exactly when it is 'success' or 'skipped', and has a
\* line number >= 1 that no other result of the run has.
C11_JobResultWellFormed ==
    /\ \A i \in DOMAIN results :
          /\ WellFormedResult(results[i])
          /\ \A j \in DOMAIN results :
                results[i].line_number = results[j].line_number => i = j
    /\ pc = "returned" =>
          /\ WellFormedResult(result)
          /\ \A i \in DOMAIN results :
                results[i].line_number # result.line_number

\* C11 witness: a run has produced results of all four statuses.
C11_Witness ==
    /\ Len(results) >= 4
    /\ {results[i].status : i \in DOMAIN results} = JobStatuses

(***************************************************************************)
(* Jobs that end without data.                                             *)
(***************************************************************************)
\* A JobResult 'not_found', or 'failed' by the search or the count request.
EndedWithoutData(r) ==
    \/ r.status = "not_found"
    \/ /\ r.status = "failed"
       /\ r.message \in {"Search failed", "Failed to get article count"}

\* C12 (a job without data leaves its file alone): the resume check, the
\* search and the count step change no output file; a job that ends
\* 'not_found', or 'failed' by its search or count, has run only these
\* steps and has written nothing, so the files are as they were before it;
\* the next call on that line does not skip it: it searches again.
C12_NoDataNoFile ==
    [][/\ pc \in {"resume", "search", "count"} => files' = files
       /\ (pc' = "returned" /\ EndedWithoutData(result')) =>
             /\ pc \in {"search", "count"}
             /\ \A i \in DOMAIN steps' :
                   steps'[i] \in {"resume", "search", "count"}
             /\ written' = "none"
             /\ files' = files
             /\ files'[line_number].kind # "array"
       /\ (pc = "resume" /\ EndedWithoutData(prev)) =>
             /\ files' = files
             /\ pc' \in {"search", "crashed"}
             /\ result' = NoResult]_vars

\* C12 witness: a line whose previous call ended 'not_found' has no output
\* file and is searched again.
C12_Witness ==
    /\ prev.status = "not_found"
    /\ files[line_number] = NoFile
    /\ steps = <<"resume", "search">>
    /\ Len(Requests(call)) >= 1

(***************************************************************************)
(* Output files that are there and are not a list of works.                *)
(***************************************************************************)
\* The file exists and does not decode, or decodes to something that is
\* not an array.
LocalStateError(file) ==
    file.kind \in {"object", "truncated", "badutf8", "unreadable"}

\* C13 (local state error): a resume check that finds a file which does
\* not decode, or does not decode to an array, neither returns 'skipped'
\* nor lets an exception out: the job goes on to its search, with the file
\* untouched; and a job that then ends 'success' has replaced the file by
\* the array of its works.
C13_LocalStateErrorReprocessed ==
    [][/\ (pc = "resume" /\ LocalStateError(files[line_number])) =>
             /\ pc' \in {"search", "crashed"}
             /\ result' = NoResult
             /\ files' = files
       /\ (pc' = "returned" /\ result'.status = "success") =>
             files'[line_number] = ArrayFile(works')]_vars

(***************************************************************************)
(* The record normalizer: process_work and what it calls.                  *)
(*                                                                         *)
(* A JSON object is a function from the keys it has to their values; a     *)
(* value that may be null is Null or Obj(v).  The inverted index, whose    *)
(* traversal order matters, is the sequence of its (word, positions)       *)
(* entries in that order.                                                  *)
(***************************************************************************)
Null == [none |-> TRUE, dict |-> <<>>]
Obj(v) == [none |-> FALSE, dict |-> v]
EmptyDict == <<>>

\* if value: neither None nor an empty dict.
Truthy(value) == ~value.none /\ value.dict # <<>>

\* d.get(key, default)
GetOr(d, key, default) == IF key \in DOMAIN d THEN d[key] ELSE default

\* authorship.get("author", {}).get("display_name", "Unknown"): the name,
\* or an AttributeError when the author is null.
AuthorName(authorship) ==
    LET author == GetOr(authorship, "author", Obj(EmptyDict))
    IN  IF author.none THEN [raised |-> TRUE, value |-> ""]
        ELSE [raised |-> FALSE,
              value |-> GetOr(author.dict, "display_name", "Unknown")]

\* Names of all authors, in the order of the authorships.
extract_all_authors(authorships) ==
    [raised |-> \E i \in DOMAIN authorships : AuthorName(authorships[i]).raised,
     value |-> [i \in DOMAIN authorships |-> AuthorName(authorships[i]).value]]

\* Mutant of IsCorresponding: an authorship without the flag is taken to
\* be corresponding.
IsCorrespondingByDefault(authorship) ==
    GetOr(authorship, "is_corresponding", TRUE)

\* authorship.get("is_corresponding", False)
IsCorresponding(authorship) == GetOr(authorship, "is_corresponding", FALSE)

\* Names of the authorships whose is_corresponding flag is true.
extract_corresponding_authors(authorships) ==
    LET flagged == SelectSeq(authorships, IsCorresponding)
    IN  [raised |-> \E i \in DOMAIN flagged : AuthorName(flagged[i]).raised,
         value |-> [i \in DOMAIN flagged |-> AuthorName(flagged[i]).value]]

RECURSIVE Items(_)
\* for word, positions in inverted_index.items(): for pos in positions:
\* word_positions.append((pos, word))
Items(entries) ==
    IF entries = <<>> THEN <<>>
    ELSE [i \in DOMAIN Head(entries).positions |->
             [pos |-> Head(entries).positions[i], word |-> Head(entries).word]]
         \o Items(Tail(entries))

\* Where list.sort puts x in a sorted list: after every element whose key
\* is not greater (the sort is stable).
InsertSorted(sorted, x) ==
    LET before == SelectSeq(sorted, LAMBDA y : y.pos <= x.pos)
        after == SelectSeq(sorted, LAMBDA y : y.pos > x.pos)
    IN  before \o <<x>> \o after

\* Mutant of SortByPos: the list is not sorted.
SortByPosSkipped(word_positions) == word_positions

RECURSIVE SortByPos(_)
\* word_positions.sort(key=lambda x: x[0])
SortByPos(word_positions) ==
    IF word_positions = <<>> THEN <<>>
    ELSE InsertSorted(SortByPos(SubSeq(word_positions, 1,
                                       Len(word_positions) - 1)),
                      word_positions[Len(word_positions)])

\* An index that is None or empty gives ""; otherwise the words in the
\* order of their positions, joined by single spaces.
reconstruct_abstract_from_inverted_index(inverted_index) ==
    IF ~Truthy(inverted_index) THEN ""
    ELSE LET word_positions == SortByPos(Items(inverted_index.dict))
         IN  Join([i \in DOMAIN word_positions |-> word_positions[i].word],
                  " ")

\* process_work on one raw work.
ProcessWork(work) ==
    LET authorships == GetOr(work, "authorships", <<>>)
        all_authors == extract_all_authors(authorships)
        corresponding_authors == extract_corresponding_authors(authorships)
        abstract_inverted_index == GetOr(work, "abstract_inverted_index", Null)
        abstract ==
            IF Truthy(abstract_inverted_index)
            THEN reconstruct_abstract_from_inverted_index(
                     abstract_inverted_index)
            ELSE ""
    IN  [raised |-> all_authors.raised \/ corresponding_authors.raised,
         value |->
            [title |-> GetOr(work, "title", "No title"),
             doi |-> GetOr(work, "doi", ""),
             publication_date |-> GetOr(work, "publication_date", ""),
             publication_year |-> GetOr(work, "publication_year", ""),
             authors |-> IF all_authors.value # <<>>
                         THEN Join(all_authors.value, "; ")
                         ELSE "No authors",
             corresponding_authors |->
                 IF corresponding_authors.value # <<>>
                 THEN Join(corresponding_authors.value, "; ")
                 ELSE "",
             abstract |-> abstract,
             cited_by_count |-> GetOr(work, "cited_by_count", 0),
             openalex_id |-> GetOr(work, "id", ""),
             type |-> GetOr(work, "type", "")]]

(***************************************************************************)
(* SpecWork: process_work on one raw work.                                 *)
(***************************************************************************)
\* The variables of the batch, at rest.
Idle ==
    /\ args = NoArgs
    /\ journals = <<>>
    /\ start_idx = 0
    /\ end_idx = 0
    /\ results = <<>>
    /\ files = <<>>
    /\ log = NoFile
    /\ log_at_start = NoFile
    /\ log_writes = 0
    /\ line_number = 0
    /\ journal = NoJournal
    /\ total_count = 0
    /\ works = <<>>
    /\ call = <<>>
    /\ steps = <<>>
    /\ result = NoResult
    /\ answer = <<>>
    /\ written = "none"
    /\ world = <<>>
    /\ max_workers = MAX_WORKERS
    /\ prev = NoResult
    /\ PoolIdle

batchVars == <<args, journals, start_idx, end_idx, results, files, log,
               log_at_start, log_writes, line_number, journal, total_count,
               works, call, steps, result, answer, written, world,
               max_workers, prev, poolVars>>

\* The fields process_work copies with work.get(key, default).
PassFields == {"title", "doi", "publication_date", "publication_year",
               "cited_by_count", "id", "type"}

\* What a field holds when the remote service gives it.
FieldValue(key) ==
    CASE key = "title" -> "A title"
      [] key = "doi" -> "https://doi.org/10.1/x"
      [] key = "publication_date" -> "2020-01-02"
      [] key = "publication_year" -> 2020
      [] key = "cited_by_count" -> 7
      [] key = "id" -> "https://openalex.org/W1"
      [] key = "type" -> "article"

\* The author of an authorship: null, an object without a name, an object
\* with one.
AuthorValues == {Null, Obj(EmptyDict), Obj([display_name |-> "Ann"])}

\* An authorship with any of its two keys.
Authorships ==
    {[k \in S |-> IF k = "author" THEN a ELSE c] :
        S \in SUBSET {"author", "is_corresponding"},
        a \in AuthorValues, c \in BOOLEAN}

AuthorshipLists == UNION {[1 .. n -> Authorships] : n \in 0 .. MaxAuthors}

\* The inverted index of a work: null, empty, or that of "a b a" listed
\* with "b" first.
SomeIndex ==
    Obj(<<[word |-> "b", positions |-> <<1>>],
          [word |-> "a", positions |-> <<0, 2>>]>>)

IndexValues == {Null, Obj(<<>>), SomeIndex}

\* A key that may be missing: no value, or one.
Optional(values) == {<<>>} \cup {<<v>> : v \in values}

\* The raw work with the given pass fields and optional values.
RawWork(fields, authorships, index, abstract) ==
    LET keys == fields
                \cup (IF authorships # <<>> THEN {"authorships"} ELSE {})
                \cup (IF index # <<>>
                      THEN {"abstract_inverted_index"} ELSE {})
                \cup (IF abstract # <<>> THEN {"abstract"} ELSE {})
    IN  [k \in keys |->
            CASE k = "authorships" -> authorships[1]
              [] k = "abstract_inverted_index" -> index[1]
              [] k = "abstract" -> abstract[1]
              [] OTHER -> FieldValue(k)]

RawWorks ==
    {RawWork(fields, authorships, index, abstract) :
        fields \in SUBSET PassFields,
        authorships \in Optional(AuthorshipLists),
        index \in Optional(IndexValues),
        abstract \in Optional({"Plain text"})}

InitWork ==
    /\ Idle
    /\ pc = "normalize"
    /\ raw \in RawWorks
    /\ out = <<>>

\* processed = process_work(work)
Normalize ==
    /\ pc = "normalize"
    /\ out' = ProcessWork(raw)
    /\ pc' = "normalized"
    /\ UNCHANGED <<batchVars, raw>>

NextWork == Normalize

SpecWork == InitWork /\ [][NextWork]_vars

(***************************************************************************)
(* SpecAbstract: reconstruct_abstract_from_inverted_index on one index.    *)
(***************************************************************************)
Words == {"a", "b", "c"}

\* The position lists of an abstract, word by word as the text is read.
Occurrences ==
    UNION {[1 .. n -> [word : Words, pos : 0 .. (MaxSlots - 1)]] :
              n \in 0 .. MaxSlots}

\* The index after one more occurrence: under its word's entry, or under a
\* new last entry.
AddOccurrence(entries, o) ==
    IF \E i \in DOMAIN entries : entries[i].word = o.word
    THEN [i \in DOMAIN entries |->
             IF entries[i].word = o.word
             THEN [entries[i] EXCEPT !.positions = Append(@, o.pos)]
             ELSE entries[i]]
    ELSE Append(entries, [word |-> o.word, positions |-> <<o.pos>>])

RECURSIVE IndexOf(_)
IndexOf(occurrences) ==
    IF occurrences = <<>> THEN <<>>
    ELSE AddOccurrence(IndexOf(SubSeq(occurrences, 1, Len(occurrences) - 1)),
                       occurrences[Len(occurrences)])

\* The arguments: None, and the index of every list of occurrences.
IndexInputs == {Null} \cup {Obj(IndexOf(o)) : o \in Occurrences}

InitAbstract ==
    /\ Idle
    /\ pc = "reconstruct"
    /\ raw \in IndexInputs
    /\ out = ""

\* abstract = reconstruct_abstract_from_inverted_index(inverted_index)
Reconstruct ==
    /\ pc = "reconstruct"
    /\ out' = reconstruct_abstract_from_inverted_index(raw)
    /\ pc' = "reconstructed"
    /\ UNCHANGED <<batchVars, raw>>

NextAbstract == Reconstruct

SpecAbstract == InitAbstract /\ [][NextAbstract]_vars

(***************************************************************************)
(* The normalizer's contract.                                              *)
(***************************************************************************)
Absent(key) == key \notin DOMAIN raw

\* No authorship of the raw work has a null author: its keys are there or
\* missing.
NoNullAuthor ==
    Absent("authorships") \/
        \A i \in DOMAIN raw.authorships :
            "author" \in DOMAIN raw.authorships[i] =>
                ~raw.authorships[i].author.none

\* The name an authorship gives: its author's display_name, "Unknown"
\* without one.
NameOf(authorship) ==
    IF /\ "author" \in DOMAIN authorship
       /\ "display_name" \in DOMAIN authorship.author.dict
    THEN authorship.author.dict.display_name
    ELSE "Unknown"

\* The authorships flagged as corresponding, by the flag being there and
\* true.
Flagged(authorships) ==
    SelectSeq(authorships,
              LAMBDA a : "is_corresponding" \in DOMAIN a /\ a.is_corresponding)

OutputKeys == {"title", "doi", "publication_date", "publication_year",
               "authors", "corresponding_authors", "abstract",
               "cited_by_count", "openalex_id", "type"}

\* process_work returned a record with every output key.
Normalized ==
    /\ pc = "normalized"
    /\ ~out.raised
    /\ DOMAIN out.value = OutputKeys

\* Fields that are there are copied.
PresentFieldsCopied ==
    /\ ~Absent("title") => out.value.title = raw.title
    /\ ~Absent("doi") => out.value.doi = raw.doi
    /\ ~Absent("publication_date") =>
          out.value.publication_date = raw.publication_date
    /\ ~Absent("publication_year") =>
          out.value.publication_year = raw.publication_year
    /\ ~Absent("cited_by_count") =>
          out.value.cited_by_count = raw.cited_by_count
    /\ ~Absent("id") => out.value.openalex_id = raw.id
    /\ ~Absent("type") => out.value.type = raw.type
    /\ (~Absent("authorships") /\ raw.authorships # <<>>) =>
          /\ out.value.authors =
                Join([i \in DOMAIN raw.authorships |->
                         NameOf(raw.authorships[i])], "; ")
          /\ out.value.corresponding_authors =
                Join([i \in DOMAIN Flagged(raw.authorships) |->
                         NameOf(Flagged(raw.authorships)[i])], "; ")

\* C14 as stated (the normalizer is total, defaults are empty): for a raw
\* work with any subset of its optional fields absent, process_work does
\* not fail, and an output field whose input is absent is the empty string
\* (0 for cited_by_count, no authors for the author fields).
C14_DefaultsAsStated ==
    (pc = "normalized" /\ NoNullAuthor) =>
        /\ Normalized
        /\ Absent("title") => out.value.title = ""
        /\ Absent("doi") => out.value.doi = ""
        /\ Absent("publication_date") => out.value.publication_date = ""
        /\ Absent("publication_year") => out.value.publication_year = ""
        /\ Absent("cited_by_count") => out.value.cited_by_count = 0
        /\ Absent("id") => out.value.openalex_id = ""
        /\ Absent("type") => out.value.type = ""
        /\ Absent("authorships") =>
              /\ out.value.authors = ""
              /\ out.value.corresponding_authors = ""
        /\ Absent("abstract_inverted_index") => out.value.abstract = ""

\* C14 as amended: process_work does not fail on absent fields, copies the
\* fields that are there, and gives an absent field its default: "No title"
\* for the title, "No authors" for the authors, "Unknown" for an author's
\* name, not corresponding for a missing flag, 0 for cited_by_count, the
\* empty string for every other field.
C14_NormalizerTotal ==
    (pc = "normalized" /\ NoNullAuthor) =>
        /\ Normalized
        /\ PresentFieldsCopied
        /\ Absent("title") => out.value.title = "No title"
        /\ Absent("doi") => out.value.doi = ""
        /\ Absent("publication_date") => out.value.publication_date = ""
        /\ Absent("publication_year") => out.value.publication_year = ""
        /\ Absent("cited_by_count") => out.value.cited_by_count = 0
        /\ Absent("id") => out.value.openalex_id = ""
        /\ Absent("type") => out.value.type = ""
        /\ (Absent("authorships") \/ raw.authorships = <<>>) =>
              /\ out.value.authors = "No authors"
              /\ out.value.corresponding_authors = ""
        /\ Absent("abstract_inverted_index") => out.value.abstract = ""

\* C14 witness: a raw work with no field at all has been normalized to the
\* defaults.
C14_Witness ==
    /\ Normalized
    /\ DOMAIN raw = {}
    /\ out.value.title = "No title"
    /\ out.value.authors = "No authors"
    /\ out.value.cited_by_count = 0

(***************************************************************************)
(* Text reconstruction.                                                    *)
(***************************************************************************)
\* The occurrences of the index in traversal order.
Listed == Items(raw.dict)

\* Where a stable sort by position puts the j-th listed occurrence: after
\* those of a smaller position and those of the same position listed
\* before it.
Rank(j) ==
    1 + Cardinality({k \in DOMAIN Listed :
                        \/ Listed[k].pos < Listed[j].pos
                        \/ Listed[k].pos = Listed[j].pos /\ k < j})

\* Every position 0 .. n-1 is listed exactly once.
PositionsContiguous ==
    \A p \in 0 .. (Len(Listed) - 1) :
        Cardinality({k \in DOMAIN Listed : Listed[k].pos = p}) = 1

\* The word that owns position p.
Owner(p) == Listed[CHOOSE k \in DOMAIN Listed : Listed[k].pos = p].word

\* C15 (text reconstruction): an index that is None or empty gives the
\* empty string; otherwise the result is the listed words joined by single
\* spaces, in ascending order of position and, for equal positions, in the
\* order of the mapping's traversal; when the positions are exactly
\* 0 .. n-1, each under one word, it is the n owners in position order.
C15_TextReconstruction ==
    pc = "reconstructed" =>
        /\ ~Truthy(raw) => out = ""
        /\ Truthy(raw) =>
              /\ out = Join([r \in DOMAIN Listed |->
                               Listed[CHOOSE j \in DOMAIN Listed :
                                          Rank(j) = r].word], " ")
              /\ PositionsContiguous =>
                    out = Join([i \in DOMAIN Listed |-> Owner(i - 1)], " ")

\* C15 witness: the index of "a b a", with "b" listed first, has been
\* reconstructed.
C15_Witness ==
    /\ pc = "reconstructed"
    /\ raw = SomeIndex
    /\ out = "a b a"

\* C16 (abstract source precedence): the abstract of the record is the raw
\* work's plain-text abstract if it has one, else the reconstruction of its
\* inverted index if it has one, else the empty string.
C16_AbstractPrecedence ==
    Normalized =>
        out.value.abstract =
            IF ~Absent("abstract") THEN raw.abstract
            ELSE IF ~Absent("abstract_inverted_index")
            THEN reconstruct_abstract_from_inverted_index(
                     raw.abstract_inverted_index)
            ELSE ""

(***************************************************************************)
(* The order of a job's steps.                                             *)
(***************************************************************************)
FullPath == <<"resume", "search", "count", "fetch", "save">>
ZeroPath == <<"resume", "search", "count", "save">>

\* The fetch of page p has finished: its last request was answered, or
\* all MAX_RETRIES attempts have failed.
PageFinished(events, p) ==
    LET reqs == Requests(PageSegment(events, p))
    IN  /\ reqs # <<>>
        /\ reqs[Len(reqs)].ok \/ Len(reqs) = MAX_RETRIES

\* The steps so far are in the order resume check, search, count, page
\* fetches, save, and each rests on what the one before it gave.  (A job
\* killed while it writes has begun its save without completing the step.)
StepsInOrder ==
    /\ IsPrefix(steps, FullPath) \/ steps = ZeroPath
    /\ LastCallWasSearch =>
          \A i \in DOMAIN Requests(call) : Requests(call)[i].op = "search"
    /\ (Len(steps) >= 3 /\ steps[3] = "count") =>
          /\ journal # NoJournal
          /\ journal \in {SourceA, SourceB}
    /\ LastCallWasCount =>
          \A i \in DOMAIN Requests(call) :
              /\ Requests(call)[i].op = "count"
              /\ Requests(call)[i].key = journal.id
    /\ LastCallWasFetch =>
          /\ total_count > 0
          /\ \A i \in DOMAIN Requests(call) : Requests(call)[i].op = "page"
    /\ steps = ZeroPath => total_count = 0
    /\ written # "none" =>
          /\ \/ steps \in {FullPath, ZeroPath}
             \/ /\ pc = "crashed"
                /\ Append(steps, "save") \in {FullPath, ZeroPath}
          /\ LastCallWasFetch =>
                \A i \in DOMAIN OpsOf(call, "submit") :
                    PageFinished(call, OpsOf(call, "submit")[i].n)
          /\ ~LastCallWasFetch => total_count = 0
    /\ files[line_number].kind = "array" /\ written = "ok" =>
          steps \in {FullPath, ZeroPath}

\* C17 (order of a job's steps): the steps of one call occur only in the
\* order resume check, search, count, page fetches, save; there is a count
\* request only after the search gave a match, page requests only after a
\* count > 0, a write of the output file only after every submitted page
\* has finished; and once the job has returned, no request and no write is
\* made for it.
C17_StepOrder ==
    /\ []StepsInOrder
    /\ [][/\ steps' # steps =>
                \/ steps' = <<>>
                \/ /\ Len(steps') = Len(steps) + 1
                   /\ SubSeq(steps', 1, Len(steps)) = steps
          /\ pc = "returned" =>
                /\ files' = files
                /\ \/ call' = call /\ steps' = steps /\ result' = result
                   \/ call' = <<>> /\ steps' = <<>> /\ pc' = "resume"]_vars

\* C17 witness: a job has gone through all five steps and returned.
C17_Witness ==
    /\ steps = FullPath
    /\ pc = "returned"
    /\ result.status = "success"
    /\ Len(OpsOf(call, "submit")) = MaxPages

(***************************************************************************)
(* The order of the jobs of a batch run.                                   *)
(***************************************************************************)
\* A job is running: main is inside process_single_journal.
JobRunning == pc \in {"resume", "search", "count", "save_empty", "fetch", "save"}

\* The line after the last result: that of the job that runs, if one does.
CurrentLine == start_idx + Len(results) + 1

\* The results list the lines start, start + 1, ... in this order; the job
\* that runs is that of the next line; the log, once written, lists the
\* same lines; and the output file of every line after the current one is
\* what the run found.
JobsInInputOrder ==
    /\ \A i \in DOMAIN results :
          /\ results[i].line_number = start_idx + i
          /\ results[i].journal_name = journals[start_idx + i]
    /\ (JobRunning \/ pc = "returned") =>
          /\ line_number = CurrentLine
          /\ line_number <= Len(journals)
    /\ pc = "returned" =>
          /\ result.line_number = line_number
          /\ result.journal_name = journals[line_number]
    /\ (log.kind = "array" /\ log # log_at_start) =>
          \A i \in DOMAIN log.data : log.data[i].line_number = start_idx + i
    /\ \E hazard \in Hazards :
          \A l \in DOMAIN files :
              (l > CurrentLine \/ l <= start_idx) =>
                  files[l] = EarlierFile(l, hazard)

\* C18 (jobs run one after the other, in input order): the results, and
\* the log, list consecutive line numbers from the start line on; every
\* request and every write of an output file belongs to the one job that is
\* running, which is that of the line after the last result, so nothing is
\* done for line i + 1 before the job of line i has returned its result.
C18_Sequential ==
    /\ []JobsInInputOrder
    /\ [][/\ (call' # call /\ call' # <<>>) =>
                /\ JobRunning
                /\ line_number = start_idx + Len(results) + 1
                /\ \A i \in DOMAIN Requests(call') :
                      Requests(call')[i].key \in
                          {journals[line_number], journal'.id}
          /\ files' # files =>
                /\ pc \in {"save_empty", "save"}
                /\ line_number = start_idx + Len(results) + 1
                /\ \A l \in DOMAIN files :
                      l # line_number => files'[l] = files[l]
          /\ results' # results =>
                /\ pc = "returned"
                /\ results' = Append(results, result)
          /\ line_number' # line_number =>
                /\ pc = "loop"
                /\ line_number' = start_idx + Len(results) + 1
                /\ (Len(results) > 0 =>
                      line_number' = results[Len(results)].line_number + 1)]_vars

\* C18 witness: a run from line 4 is downloading its fourth journal, line 7,
\* after the results of lines 4, 5 and 6.
C18_Witness ==
    /\ start_idx = 3
    /\ Len(results) = 3
    /\ [i \in 1 .. 3 |-> results[i].line_number] = <<4, 5, 6>>
    /\ line_number = 7
    /\ JobRunning
    /\ Requests(call) # <<>>

(***************************************************************************)
(* Writers of the output files.                                            *)
(***************************************************************************)
\* How many times the job has run its save step.
Saves == Cardinality({i \in DOMAIN steps : steps[i] = "save"})

\* A job that has returned has reached its save: it ended 'success', or
\* 'failed' by its download.
ReachedSave(r) ==
    \/ r.status = "success"
    \/ r.status = "failed" /\ r.message = "Download failed"

\* Every change of an output file is the one write of the job that runs,
\* to the file of its own line.
OneWriterOwnFile ==
    [][files' # files =>
          /\ pc \in {"save_empty", "save"}
          /\ written = "none"
          /\ written' # "none"
          /\ Saves = 0
          /\ line_number = start_idx + Len(results) + 1
          /\ \A l \in DOMAIN files :
                l # line_number => files'[l] = files[l]]_vars

\* C19 as stated (one write per job): every job writes the file of its own
\* line, and no other, exactly once.
C19_ExactlyOnceAsStated ==
    /\ [](Saves <= 1)
    /\ [](pc = "returned" => Saves = 1 /\ written # "none")
    /\ OneWriterOwnFile

\* C19 as amended: every job writes the file of its own line, and no
\* other, at most once: exactly once when it reaches its save (it ends
\* 'success', or 'failed' by its download), and not at all when it ends
\* 'skipped', 'not_found' or 'failed' by its search or count.
C19_SingleWriter ==
    /\ [](Saves <= 1)
    /\ [](pc = "returned" =>
             IF ReachedSave(result)
             THEN Saves = 1 /\ written # "none"
             ELSE Saves = 0 /\ written = "none")
    /\ [](written # "none" =>
             \/ Saves = 1
             \/ pc = "crashed" /\ Saves = 0)
    /\ OneWriterOwnFile

\* C19 witness: the third job of a run has written its works to the file
\* of its line and returned.
C19_Witness ==
    /\ pc = "returned"
    /\ Len(results) >= 2
    /\ result.status = "success"
    /\ Saves = 1
    /\ written = "ok"
    /\ works # <<>>
    /\ files[line_number] = ArrayFile(works)

Sites == {"batch", "single"}

\* ThreadPoolExecutor(max_workers=MAX_WORKERS), in each script.
PoolSize(s) == IF s = "batch" THEN MAX_WORKERS ELSE SINGLE_MAX_WORKERS

\* The page counts a download of the model has: up to MaxPages in the
\* batch script, up to MaxPoolPages in the single-journal script, which
\* has more threads to keep busy.
PoolPages(s) == 1 .. (IF s = "batch" THEN MaxPages ELSE MaxPoolPages)

\* A total count of n pages: n - 1 full pages and 50 works.
CountOfPages(n) == (n - 1) * PER_PAGE + 50

\* How the remote service may answer the pages: in the batch script every
\* page is answered at once, after one retry, or never; in the
\* single-journal script every page is answered, or all but the first,
\* or all but the last.
PoolScripts(s, num_pages) ==
    IF s = "batch" THEN [1 .. num_pages -> PageNFails]
    ELSE {[p \in 1 .. num_pages |-> IF p = bad THEN 1 ELSE 0] :
             bad \in {0, 1, num_pages}}

\* executor.submit(fetch_works_page, journal_id, page): a pending future.
NewFuture(page) ==
    [page |-> page, state |-> "queued", attempt |-> 0, raised |-> FALSE,
     value |-> WorkRun(page, 0)]

\* The futures a thread of the pool is running.
Running ==
    Cardinality({i \in DOMAIN futures :
                    futures[i].state \in {"sleep", "get", "backoff"}})

\* The page requests the remote service has received and not answered.
InFlight ==
    Cardinality({i \in DOMAIN futures : futures[i].state = "get"})

\* Mutant of ThreadFree: the executor starts a thread for every task.
ThreadFreeAlways == TRUE

\* The pool has max_workers threads, each running one task at a time.
ThreadFree == Running < max_workers

callerVars == <<args, journals, start_idx, end_idx, results, files, log,
                log_at_start, log_writes, line_number, call, steps, result,
                written, world, prev, raw, out, site, max_workers, journal,
                total_count, answer>>

InitPool ==
    /\ args = NoArgs
    /\ journals = <<>>
    /\ start_idx = 0
    /\ end_idx = 0
    /\ results = <<>>
    /\ files = <<>>
    /\ log = NoFile
    /\ log_at_start = NoFile
    /\ log_writes = 0
    /\ line_number = 0
    /\ call = <<>>
    /\ steps = <<>>
    /\ result = NoResult
    /\ written = "none"
    /\ world = <<>>
    /\ prev = NoResult
    /\ raw = <<>>
    /\ out = <<>>
    /\ site \in Sites
    /\ max_workers = PoolSize(site)
    /\ journal = SourceA
    /\ \E n \in PoolPages(site) :
          /\ total_count = CountOfPages(n)
          /\ answer \in PoolScripts(site, n)
    /\ pc = "submit"
    /\ queue = <<>>
    /\ futures = <<>>
    /\ all_works = <<>>
    /\ works = <<>>
    /\ collected = <<>>

\* executor.submit(fetch_works_page, journal_id, page), for the next page of
\* range(1, num_pages + 1); the batch script then pauses if
\* page % MAX_WORKERS == 0.
PoolSubmit ==
    /\ pc = "submit"
    /\ Len(futures) < NumPages(total_count)
    /\ LET page == PageRange(NumPages(total_count))[Len(futures) + 1]
       IN  /\ futures' = Append(futures, NewFuture(page))
           /\ queue' = Append(queue, page)
           /\ pc' = IF site = "batch"
                       /\ StaggerAfter(page, max_workers) # <<>>
                    THEN "stagger" ELSE "submit"
    /\ UNCHANGED <<callerVars, all_works, works, collected>>

\* time.sleep(REQUEST_DELAY * 0.5) returns.
PoolStaggerEnd ==
    /\ pc = "stagger"
    /\ pc' = "submit"
    /\ UNCHANGED <<callerVars, queue, futures, all_works, works, collected>>

\* The submission loop ends.
PoolSubmitEnd ==
    /\ pc = "submit"
    /\ Len(futures) = NumPages(total_count)
    /\ pc' = "collect"
    /\ UNCHANGED <<callerVars, queue, futures, all_works, works, collected>>

\* A thread of the pool takes the oldest task of the queue and calls
\* fetch_works_page: the batch script's sleeps before its request.
TakeTask ==
    /\ queue # <<>>
    /\ ThreadFree
    /\ futures' = [futures EXCEPT
                      ![Head(queue)].state =
                          IF site = "batch" THEN "sleep" ELSE "get"]
    /\ queue' = Tail(queue)
    /\ UNCHANGED <<callerVars, pc, all_works, works, collected>>

\* time.sleep(REQUEST_DELAY) returns and requests.get sends the request.
SendRequest(i) ==
    /\ futures[i].state = "sleep"
    /\ futures' = [futures EXCEPT ![i].state = "get"]
    /\ UNCHANGED <<callerVars, pc, queue, all_works, works, collected>>

\* What fetch_works_page does when its request fails.  Batch script:
\* retry_on_error waits and tries again, and raises after the last
\* attempt.  Single-journal script: it returns [].
AfterFailedRequest(future) ==
    IF site = "batch"
    THEN IF AfterFailure(future.attempt) # <<>>
         THEN [future EXCEPT !.state = "backoff"]
         ELSE [future EXCEPT !.state = "done", !.raised = TRUE]
    ELSE [future EXCEPT !.state = "done"]

\* The request returns or raises.
Respond(i) ==
    /\ futures[i].state = "get"
    /\ LET page == futures[i].page
           r == CallFunc(Script(answer[page], PageResult(total_count, page)),
                         Get("page", journal.id, page), futures[i].attempt)
       IN  futures' =
              [futures EXCEPT
                  ![i] = IF r.ok
                         THEN [@ EXCEPT !.state = "done", !.value = r.value]
                         ELSE AfterFailedRequest(@)]
    /\ UNCHANGED <<callerVars, pc, queue, all_works, works, collected>>

\* time.sleep(wait_time) returns: the next attempt.
Wake(i) ==
    /\ futures[i].state = "backoff"
    /\ futures' = [futures EXCEPT
                      ![i].state = "sleep", ![i].attempt = @ + 1]
    /\ UNCHANGED <<callerVars, pc, queue, all_works, works, collected>>

\* Mutant of Uncollected: a finished future is yielded again.
UncollectedOrNot(i) == TRUE

\* The loops over the futures visit every future once.
Uncollected(i) == \A k \in DOMAIN collected : collected[k] # i

\* Mutant of NextFuture: the batch script collects the futures as they
\* complete.
NextFutureAsCompleted(i) == TRUE

\* Which future the coordinating thread collects next.  Batch script:
\* for future, page in futures, in submission order.  Single-journal
\* script: for future in as_completed(future_to_page), any finished one.
NextFuture(i) == site = "batch" => i = Len(collected) + 1

\* works = future.result(); all_works.extend(works), by the coordinating
\* thread: future.result() waits until the future is done.
PoolCollect ==
    /\ pc = "collect"
    /\ Len(collected) < Len(futures)
    /\ \E i \in DOMAIN futures :
          /\ Uncollected(i)
          /\ NextFuture(i)
          /\ futures[i].state = "done"
          /\ all_works' = Collect(all_works, futures[i])
          /\ collected' = Append(collected, i)
    /\ UNCHANGED <<callerVars, pc, queue, futures, works>>

\* The loop over the futures ends and the with block is left:
\* executor.shutdown(wait=True) returns when every task is done.
PoolExit ==
    /\ pc = "collect"
    /\ Len(collected) = Len(futures)
    /\ \A i \in DOMAIN futures : futures[i].state = "done"
    /\ pc' = "process"
    /\ UNCHANGED <<callerVars, queue, futures, all_works, works, collected>>

\* processed_works = [process_work(work) for work in all_works]; return.
PoolReturn ==
    /\ pc = "process"
    /\ works' = [i \in DOMAIN all_works |-> process_work(all_works[i])]
    /\ pc' = "returned"
    /\ UNCHANGED <<callerVars, queue, futures, all_works, collected>>

NextPool ==
    \/ PoolSubmit
    \/ PoolStaggerEnd
    \/ PoolSubmitEnd
    \/ TakeTask
    \/ \E i \in DOMAIN futures : SendRequest(i)
    \/ \E i \in DOMAIN futures : Respond(i)
    \/ \E i \in DOMAIN futures : Wake(i)
    \/ PoolCollect
    \/ PoolExit
    \/ PoolReturn

SpecPool == InitPool /\ [][NextPool]_vars

(***************************************************************************)
(* The pool of download_all_works.                                         *)
(***************************************************************************)
\* C21 (bounded concurrency): at every moment of download_all_works the
\* page requests in flight, and the tasks a thread is running, are at most
\* the pool size, which is MAX_WORKERS = 2 in the batch script and 5 in
\* the single-journal script, the batch pool being the smaller; a task
\* waits in the queue only while every thread is busy; and once the
\* coordinating thread has left the pool no page request is in flight, no
\* task is running and none is queued, so that the requests the thread
\* makes outside download_all_works are alone.
C21_BoundedConcurrency ==
    /\ max_workers = PoolSize(site)
    /\ PoolSize("batch") = 2
    /\ PoolSize("single") = 5
    /\ PoolSize("batch") < PoolSize("single")
    /\ InFlight <= Running
    /\ Running <= max_workers
    /\ pc \in {"process", "returned"} =>
          /\ InFlight = 0
          /\ Running = 0
          /\ queue = <<>>

\* C21 witness: in the batch script both threads have a page request in
\* flight while a third page waits in the queue.
C21_Witness ==
    /\ site = "batch"
    /\ InFlight = MAX_WORKERS
    /\ queue # <<>>
    /\ Len(futures) > MAX_WORKERS

\* The pages the remote service ends up answering: in the batch script
\* within MAX_RETRIES attempts, in the single-journal script at once.
PoolSucceeded ==
    {p \in 1 .. NumPages(total_count) :
        IF site = "batch" THEN answer[p] < MAX_RETRIES ELSE answer[p] = 0}

RECURSIVE SizeOfPages(_, _)
\* How many works the pages of a set hold.
SizeOfPages(total, pages) ==
    IF pages = {} THEN 0
    ELSE LET p == CHOOSE q \in pages : TRUE
         IN  PageSize(total, p) + SizeOfPages(total, pages \ {p})

\* The positions of a list of works that hold the works of page p.
RunsOf(list, p) == {k \in DOMAIN list : list[k].page = p}

\* C22 (no lost and no duplicated pages): under every interleaving of the
\* page workers, in both scripts, the list download_all_works returns
\* holds the works of every page that was fetched successfully exactly
\* once, normalised, and nothing else; while the futures are collected,
\* all_works holds exactly the works of the collected pages that
\* succeeded, each once, and every future is collected once.
C22_NoLostNoDuplicatedPages ==
    /\ \A p \in 1 .. NumPages(total_count) :
          /\ Cardinality(RunsOf(all_works, p)) =
                IF /\ p \in PoolSucceeded
                   /\ \E k \in DOMAIN collected : collected[k] = p
                THEN 1 ELSE 0
          /\ \A k \in RunsOf(all_works, p) :
                all_works[k] = PageResult(total_count, p)
    /\ \A k \in DOMAIN collected : collected[k] \in DOMAIN futures
    /\ \A j, k \in DOMAIN collected : collected[j] = collected[k] => j = k
    /\ pc = "returned" =>
          /\ Len(works) = Cardinality(PoolSucceeded)
          /\ \A p \in PoolSucceeded :
                \E k \in DOMAIN works :
                   /\ works[k] = process_work(PageResult(total_count, p))
                   /\ RunsOf(works, p) = {k}
          /\ \A k \in DOMAIN works : works[k].page \in PoolSucceeded
          /\ NumWorks(works) = SizeOfPages(total_count, PoolSucceeded)

\* C22 witness: in the single-journal script a later page completed and
\* was collected before page 1, one page failed, and the returned list
\* holds the other pages' works.
C22_Witness ==
    /\ site = "single"
    /\ pc = "returned"
    /\ collected[1] # 1
    /\ Cardinality(PoolSucceeded) = NumPages(total_count) - 1
    /\ Len(works) >= MAX_WORKERS
    /\ works[1].page # 1

(***************************************************************************)
(* The range of lines a run processes.                                     *)
(***************************************************************************)
\* The lines of the input file that are not blank, by their position in
\* the file.
NonBlank(lines) ==
    SelectSeq([i \in DOMAIN lines |-> i],
              LAMBDA i : \E k \in DOMAIN lines[i] :
                            lines[i][k] \notin Whitespace)

\* The name on the p-th non-blank line of the input file.
EntryAt(p) ==
    LET line == args.input_file[NonBlank(args.input_file)[p]]
    IN  line[CHOOSE k \in DOMAIN line : line[k] \notin Whitespace]

\* N, and the last position of the range: --end, or N when it is omitted.
NumEntries == Len(NonBlank(args.input_file))
LastEntry == IF args.end = 0 THEN NumEntries ELSE args.end

RangeIsValid ==
    /\ 1 <= args.start
    /\ args.start <= LastEntry
    /\ LastEntry <= NumEntries

\* The jobs done so far are those of the positions start, start + 1, ...,
\* each with its position as line_number and the name at that position;
\* the job that runs is that of the next position, which is at most the
\* last one; a run that ends has done them all.
RangeProcessed ==
    /\ Len(results) <= LastEntry - args.start + 1
    /\ \A i \in DOMAIN results :
          /\ results[i].line_number = args.start + i - 1
          /\ results[i].journal_name = EntryAt(args.start + i - 1)
    /\ (JobRunning \/ pc = "returned") =>
          /\ line_number = args.start + Len(results)
          /\ line_number <= LastEntry
          /\ journals[line_number] = EntryAt(line_number)
    /\ pc = "returned" =>
          /\ result.line_number = line_number
          /\ result.journal_name = EntryAt(line_number)
    /\ pc \in {"final", "done"} =>
          Len(results) = LastEntry - args.start + 1

\* C23 (range selection and line numbering): for an input file with N
\* non-blank lines and 1 <= start <= end <= N, end being N when --end is
\* omitted, the run processes exactly the entries at the positions start to
\* end, counted over the non-blank lines, in order; the job of position p
\* gets line_number p and the name at position p, and the only output file
\* it writes is p.json.
C23_RangeAndLineNumbers ==
    /\ [](RangeIsValid => RangeProcessed)
    /\ [][(RangeIsValid /\ files' # files) =>
             /\ JobRunning
             /\ line_number \in args.start .. LastEntry
             /\ line_number = args.start + Len(results)
             /\ \A l \in DOMAIN files :
                   l # line_number => files'[l] = files[l]]_vars

\* C23 witness: a run over the positions 4 to 8 of an input file whose
\* blank lines put position 4 on the file's fifth line has ended, with five
\* results, after writing 4.json.
C23_Witness ==
    /\ pc = "done"
    /\ RangeIsValid
    /\ args.start = 4
    /\ args.end = 8
    /\ NonBlank(args.input_file)[4] = 5
    /\ Len(results) = 5
    /\ results[1].line_number = 4
    /\ results[1].journal_name = JournalName(4)
    /\ results[1].status = "success"
    /\ files[4].kind = "array"

(***************************************************************************)
(* Resuming after a crash.                                                 *)
(***************************************************************************)
\* The lists a save that finished can have written: nothing, or what a
\* download returned.
FinishedSaves ==
    {<<>>} \cup
    {download_all_works("S1", c, MAX_WORKERS, nfail).works :
        c \in Counts \ {0}, nfail \in [1 .. MaxPages -> PageNFails]}

\* What a save that was interrupted can have left.
InterruptedSaves ==
    {TornFile(w, how) : w \in FinishedSaves, how \in {"cut_text", "cut_char"}}

\* A line reported 'skipped' has a file with the complete list of a save
\* that finished, and the result counts that list.
SkippedFilesAreComplete ==
    (pc = "returned" /\ result.status = "skipped") =>
        /\ files[line_number].kind = "array"
        /\ files[line_number].data \in FinishedSaves
        /\ result.articles_count = NumWorks(files[line_number].data)
        /\ files[line_number] \notin InterruptedSaves

\* C24 (crash-safe resume state): after a run that crashed, in the middle
\* of a save or elsewhere, every line the next run reports 'skipped' has a
\* file holding the complete list of a save that finished, and the file an
\* interrupted save left is not accepted: the resume check of the next run
\* sends the job on to its search, which reprocesses the line.
C24_CrashSafeResume ==
    /\ []SkippedFilesAreComplete
    /\ [][(/\ pc = "resume"
           /\ prev.status = "crashed"
           /\ files[line_number] \in InterruptedSaves) =>
              /\ pc' \in {"search", "crashed"}
              /\ files' = files]_vars

\* A list of works is in ascending page order.
AscendingPages(list) ==
    \A j, k \in DOMAIN list : j < k => list[j].page < list[k].page

\* C25 (the batch script's output order is deterministic): under every
\* order in which the page workers complete, the batch script collects the
\* futures in submission order, so that all_works is at every moment in
\* ascending page order, and the list it returns is the one the page
\* responses alone determine: the successful pages' works, normalised, in
\* ascending page order; two runs with the same responses return, and so
\* save, the same list.
C25_DeterministicOrder ==
    site = "batch" =>
        /\ collected = [k \in 1 .. Len(collected) |-> k]
        /\ AscendingPages(all_works)
        /\ pc = "returned" =>
              /\ AscendingPages(works)
              /\ {works[k].page : k \in DOMAIN works} = PoolSucceeded
              /\ \A k \in DOMAIN works :
                    works[k] =
                       process_work(PageResult(total_count, works[k].page))
              /\ works = download_all_works(journal.id, total_count,
                                            max_workers, answer).works
              /\ save_to_json(works, NoFile, "ok").file =
                    ArrayFile(download_all_works(journal.id, total_count,
                                                 max_workers, answer).works)

\* C25 witness: in the batch script page 3 has completed while page 2, which
\* is being retried, has not; the coordinating thread has collected page 1
\* and waits for page 2.
C25_Witness ==
    /\ site = "batch"
    /\ pc = "collect"
    /\ Len(futures) >= 3
    /\ collected = <<1>>
    /\ all_works = <<PageResult(total_count, 1)>>
    /\ futures[2].state = "backoff"
    /\ futures[3].state = "done"
    /\ ~futures[3].raised

(***************************************************************************)
(* SpecLive: one run of main that nothing kills.  The program takes its    *)
(* next step as long as it has one: every request returns or raises        *)
(* (timeout=30), every sleep ends, every write returns or raises.          *)
(***************************************************************************)
ProgramStep ==
    \/ ResumeCheck
    \/ SearchStep
    \/ CountStep
    \/ SaveEmpty
    \/ FetchStep
    \/ SaveWorks
    \/ LoopNext
    \/ AppendResult
    \/ Checkpoint
    \/ LoopEnd
    \/ FinalLog

\* Every step of the program changes pc or steps.
SpecLive ==
    InitBatch /\ [][ProgramStep]_vars /\ WF_<<pc, steps>>(ProgramStep)

\* The requests of a step, by endpoint and page.
RequestsFor(op, page) ==
    SelectSeq(call, LAMBDA e : e.op = op /\ e.n = page)

\* A job's search makes at most 3 requests, its count at most 3, and its
\* download at most 3 for every page number, which makes at most
\* 3 + 3 + 3 * num_pages for the job.
RequestsBounded ==
    /\ LastCallWasSearch =>
          /\ Len(Requests(call)) = Len(RequestsFor("search", 0))
          /\ Len(Requests(call)) <= 3
    /\ LastCallWasCount =>
          /\ Len(Requests(call)) = Len(RequestsFor("count", 0))
          /\ Len(Requests(call)) <= 3
    /\ LastCallWasFetch =>
          /\ \A e \in Range(Requests(call)) :
                e.op = "page" /\ e.n \in 1 .. NumPages(total_count)
          /\ \A p \in 1 .. NumPages(total_count) :
                Len(RequestsFor("page", p)) \in 1 .. 3
          /\ Len(Requests(call)) <= 3 * NumPages(total_count)

\* How far a run is from its end: ten for every journal still to be done,
\* and the steps left in the current iteration of main's loop.
StepsLeft ==
    CASE pc = "checkpoint" -> 9
      [] pc = "loop" -> 8
      [] pc = "resume" -> 7
      [] pc = "search" -> 6
      [] pc = "count" -> 5
      [] pc \in {"save_empty", "fetch"} -> 4
      [] pc = "save" -> 3
      [] pc = "returned" -> 2
      [] pc = "final" -> 1
      [] OTHER -> 0

Variant == 10 * (Len(journals_to_process) - Len(results)) + StepsLeft

\* Every step of the program brings the run nearer to its end, so that no
\* run goes on for ever.
VariantDecreases == [][Variant' < Variant /\ Variant' >= 0]_vars

\* C26 (every job terminates with a bounded number of requests): every
\* HTTP request returning or raising, every call of process_single_journal
\* returns a JobResult after at most 3 search requests, at most 3 count
\* requests and at most 3 requests for every page number, and the run over
\* its range reaches its final log write.  Under the fairness of SpecLive
\* this is: the requests are bounded, every step decreases the variant, a
\* job leaves process_single_journal by a JobResult only, and the program
\* has a next step as long as the final log has not been written.
C26_TerminatesWithinBounds ==
    /\ []RequestsBounded
    /\ VariantDecreases
    /\ [](JobRunning => ENABLED <<ProgramStep>>_<<pc, steps>>)
    /\ [][JobRunning => (JobRunning' \/ pc' = "returned")]_vars
    /\ [](pc # "done" => ENABLED <<ProgramStep>>_<<pc, steps>>)
    /\ [](pc = "done" => log = ArrayFile(results))

\* What holds of every run: the requests are bounded and the run ends, by
\* its final log write or by an exception that a write of the empty result
\* or the resume check has raised.
TerminatesOrRaises ==
    /\ []RequestsBounded
    /\ VariantDecreases
    /\ [](pc \notin {"done", "raised"} => ENABLED <<ProgramStep>>_<<pc, steps>>)
    /\ [](pc = "done" => log = ArrayFile(results))
    /\ [](pc = "raised" => written = "open_error" \/ steps = <<"resume">>)

====
